---- MODULE Spec2Model ----
(***************************************************************************)
(* Turn-based session state machine of the form-filling assistant:         *)
(* the LangGraph state with its reducers, the router and its conditional   *)
(* edge, the four handler nodes, runGraph, and the WebSocket server's      *)
(* load / run / save cycle around a turn.                                  *)
(*                                                                         *)
(* Conventions.  JavaScript `undefined` and `null` of a string-valued      *)
(* field are the strings Undef and Null.  An absent form_fields array is   *)
(* the empty sequence: the code never builds an empty array and each of    *)
(* its reads (?., ||, length === 0) treats the two alike.  A partial state *)
(* update (Partial<StateType>) is a record whose domain is the set of keys *)
(* the handler returned.  Texts produced by the language model are opaque  *)
(* tags.                                                                   *)
(***************************************************************************)
EXTENDS Integers, Sequences, FiniteSets, TLC

(***************************************************************************)
(* Bounds of the model                                                     *)
(***************************************************************************)
\* turns explored from a fresh session, or from one whose form has been fetched
MaxChatTurns == 2
\* turns explored from a session whose form has just been initialised
MaxCollectTurns == 9
\* answers of one run that differ from the plain answer "a"
MaxVaried == 1
\* messages handled by the server in one run
MaxMessages == 2
\* turns of one run in which an adapter or the graph fails
MaxFailures == 1
\* length of the history updates against which the history reducer is checked
MaxUpdateLen == 3
MaxSessionTurns == 2
MaxRestarts == 1
\* messages received on the connections of one session id
MaxSocketMessages == 2
\* calls of ChatbotAgent.chat on one chat session
MaxChatCalls == 2
\* tool calls in one reply of the chat model
MaxToolCalls == 2

(***************************************************************************)
(* Values                                                                  *)
(***************************************************************************)
Undef == "undefined"
Null == "null"

Nullish(v) == v \in {Undef, Null}

\* f.value === null || f.value === "" || f.value === undefined
Unset(v) == v \in {Null, "", Undef}

HumanMessage(text) == [type |-> "human", content |-> text, about |-> "-"]
AIMessage(text) == [type |-> "ai", content |-> text, about |-> "-"]
\* the model's question for a field: the prompt names the field asked for
AIQuestion(name) == [type |-> "ai", content |-> "question", about |-> name]

(***************************************************************************)
(* Form Catalog (formMetadata): field names and required flags, in order   *)
(***************************************************************************)
Field(n, r) == [name |-> n, required |-> r, value |-> Undef]

PAN001 ==
  [formId |-> "PAN001", formName |-> "PAN Card Application",
   fields |-> << Field("full_name", TRUE), Field("father_name", TRUE),
                 Field("dob", TRUE), Field("gender", TRUE),
                 Field("aadhaar_number", TRUE), Field("mobile_number", TRUE),
                 Field("address", TRUE), Field("declaration_consent", TRUE) >>]

INS001 ==
  [formId |-> "INS001", formName |-> "Insurance Application",
   fields |-> << Field("policy_holder_name", TRUE), Field("insured_person_name", TRUE),
                 Field("relationship_to_holder", TRUE), Field("dob_insured", TRUE),
                 Field("sum_insured", TRUE), Field("pre_existing_disease", FALSE),
                 Field("nominee_name", TRUE), Field("nominee_relationship", TRUE),
                 Field("consent_agreement", TRUE) >>]

formMetadata == << PAN001, INS001 >>

FormIds == {formMetadata[i].formId : i \in 1..Len(formMetadata)}

\* formMetadata.find(f => f.formId === formId)
FindForm(formId) ==
  IF formId \in FormIds
  THEN formMetadata[CHOOSE i \in 1..Len(formMetadata) : formMetadata[i].formId = formId]
  ELSE [error |-> "not found"]

(***************************************************************************)
(* Session state (StateAnnotation) and its reducers                        *)
(***************************************************************************)
BoolKeys == {"awaiting_input", "is_form_filling_started", "isFormfillingInterupted",
             "isFormReady"}
StringKeys == {"current_node", "last_node", "form_id", "form_name", "form_status",
               "current_field", "last_field"}
Keys == {"input", "chat_history", "form_fields"} \cup BoolKeys \cup StringKeys

\* the keys whose reducer is (current, update) => update ?? current
NullishKeys == BoolKeys \cup StringKeys \cup {"form_fields"}

\* default: () => ... of every channel
Defaults ==
  [input |-> Undef, chat_history |-> << >>, current_node |-> Null, last_node |-> Null,
   awaiting_input |-> FALSE, is_form_filling_started |-> FALSE, form_id |-> Undef,
   form_name |-> Undef, form_fields |-> << >>, form_status |-> "not_started",
   current_field |-> Undef, last_field |-> Undef, isFormfillingInterupted |-> FALSE,
   isFormReady |-> FALSE]

RECURSIVE NewMessages(_, _, _)
\* update.filter((msg, idx) => !currentIds.has(`${msg._getType()}-${idx}`)), from index i
NewMessages(current, update, i) ==
  IF i > Len(update) THEN << >>
  ELSE (IF i <= Len(current) /\ current[i].type = update[i].type
        THEN << >> ELSE << update[i] >>) \o NewMessages(current, update, i + 1)

\* a reducer that appends the whole update
ChatHistoryReducerConcat(current, update) == current \o update

ChatHistoryReducer(current, update) == current \o NewMessages(current, update, 1)

\* update ?? current
NullishReducer(k, current, update) ==
  IF k \in BoolKeys THEN update
  ELSE IF k = "form_fields" THEN (IF update = << >> THEN current ELSE update)
  ELSE IF Nullish(update) THEN current ELSE update

Reducer(k, current, update) ==
  IF k = "chat_history" THEN ChatHistoryReducer(current, update)
  ELSE IF k = "input" THEN update
  ELSE NullishReducer(k, current, update)

\* a node's partial update applied to the graph state, channel by channel
\* a merge under which a field the update omits falls back to its default
MergeResetting(current, update) ==
  [k \in Keys |-> IF k \in DOMAIN update THEN Reducer(k, current[k], update[k])
                  ELSE Defaults[k]]

Merge(current, update) ==
  LET merged(k) == IF k \in DOMAIN update THEN Reducer(k, current[k], update[k])
                   ELSE current[k]
  IN [input |-> merged("input"),
      chat_history |-> merged("chat_history"),
      current_node |-> merged("current_node"),
      last_node |-> merged("last_node"),
      awaiting_input |-> merged("awaiting_input"),
      is_form_filling_started |-> merged("is_form_filling_started"),
      form_id |-> merged("form_id"),
      form_name |-> merged("form_name"),
      form_fields |-> merged("form_fields"),
      form_status |-> merged("form_status"),
      current_field |-> merged("current_field"),
      last_field |-> merged("last_field"),
      isFormfillingInterupted |-> merged("isFormfillingInterupted"),
      isFormReady |-> merged("isFormReady")]


Coalesce(a, b) == IF Nullish(a) THEN b ELSE a
CoalesceFields(a, b) == IF a = << >> THEN b ELSE a

\* createInitialSession(): what the server starts a new session from
createInitialSession ==
  [input |-> "", chat_history |-> << >>, current_node |-> Null, last_node |-> Null,
   awaiting_input |-> FALSE, is_form_filling_started |-> FALSE, form_status |-> Undef,
   form_id |-> Undef, form_name |-> Undef, form_fields |-> << >>,
   current_field |-> Undef, last_field |-> Undef, isFormfillingInterupted |-> FALSE,
   isFormReady |-> FALSE]

\* appGraph.invoke({ input, ...session }): the state written to the channels;
\* a session that has an input of its own overrides the input argument
GraphInput(input, sess) ==
  LET initial == [k \in DOMAIN sess \cup {"input"} |->
                    IF k \in DOMAIN sess THEN sess[k] ELSE input]
  IN Merge(Defaults, initial)

\* previousState.input = message.content: what runGraph's caller does to the
\* session before the call
SetInput(sess, input) == [sess EXCEPT !.input = input]

(***************************************************************************)
(* Router                                                                  *)
(***************************************************************************)
\* replies of the routing model: a text, a non-text content, or an exception
RouterTexts == {"form_assistant_agent", "status_tracking_agent", "submit_form",
                " Status_Tracking_Agent\n", "route: status_tracking_agent", ""}
RouterReplies == [kind : {"text"}, content : RouterTexts]
                   \cup {[kind |-> "blocks", content |-> "-"],
                         [kind |-> "throws", content |-> "-"]}

\* response.content.trim().toLowerCase() on the texts above
TrimLower(text) ==
  IF text = " Status_Tracking_Agent\n" THEN "status_tracking_agent" ELSE text

validRoutes == {"form_assistant_agent", "status_tracking_agent", "submit_form"}

\* a router that accepts the reply only as written, without normalising it
routerNodeVerbatim(state, reply) ==
  IF reply.kind = "throws"
  THEN [current_node |-> "form_assistant_agent", last_node |-> state.current_node]
  ELSE LET content == IF reply.kind = "text" THEN reply.content ELSE ""
           selectedRoute == IF content \in validRoutes THEN content
                            ELSE "form_assistant_agent"
       IN [current_node |-> selectedRoute, last_node |-> state.current_node]

routerNode(state, reply) ==
  IF reply.kind = "throws"
  THEN [current_node |-> "form_assistant_agent", last_node |-> state.current_node]
  ELSE LET content == IF reply.kind = "text" THEN TrimLower(reply.content) ELSE ""
           selectedRoute == IF content \in validRoutes THEN content
                            ELSE "form_assistant_agent"
       IN [current_node |-> selectedRoute, last_node |-> state.current_node]

\* a routing that follows the classifier before looking at the collection flag
routeToAgentClassifierFirst(state) ==
  IF state.current_node = "status_tracking_agent" THEN "status_tracking_agent"
  ELSE IF state.is_form_filling_started THEN "form_filling_agent"
  ELSE IF state.form_status = "completed" THEN "submit_form"
  ELSE "form_assistant_agent"

\* a routing that follows the router to any node it names, submit_form included
routeToAgentFollowsRouter(state) ==
  IF state.is_form_filling_started THEN "form_filling_agent"
  ELSE IF state.form_status = "completed" THEN "submit_form"
  ELSE IF state.current_node \in {"form_assistant_agent", "status_tracking_agent",
                                  "submit_form"}
  THEN state.current_node
  ELSE "form_assistant_agent"

\* a routing without the completed-form override
routeToAgentNoSubmit(state) ==
  IF state.is_form_filling_started THEN "form_filling_agent"
  ELSE IF state.current_node = "status_tracking_agent" THEN "status_tracking_agent"
  ELSE "form_assistant_agent"

routeToAgent(state) ==
  IF state.is_form_filling_started THEN "form_filling_agent"
  ELSE IF state.form_status = "completed" THEN "submit_form"
  ELSE IF state.current_node = "form_assistant_agent" THEN "form_assistant_agent"
  ELSE IF state.current_node = "status_tracking_agent" THEN "status_tracking_agent"
  ELSE "form_assistant_agent"

Nodes == {"form_assistant_agent", "status_tracking_agent", "form_filling_agent",
          "submit_form"}

(***************************************************************************)
(* Handler nodes                                                           *)
(***************************************************************************)
\* a tracker that marks the form in progress, as the collector's catch block does
statusTrackingNodeMarking(state, agentOk) ==
  [chat_history |-> state.chat_history \o
       << HumanMessage(state.input),
          AIMessage(IF agentOk THEN "status_reply" ELSE "status_apology") >>,
   last_node |-> state.current_node,
   current_node |-> "status_tracking_agent",
   form_status |-> "in_progress"]

\* try block 295-317 and catch block 318-334: the same update, but for the text
statusTrackingNode(state, agentOk) ==
  [chat_history |-> state.chat_history \o
       << HumanMessage(state.input),
          AIMessage(IF agentOk THEN "status_reply" ELSE "status_apology") >>,
   last_node |-> state.current_node,
   current_node |-> "status_tracking_agent"]

\* form_fields?.find(f => f.name === current_field) is defined
HasField(form_fields, name) == \E i \in 1..Len(form_fields) : form_fields[i].name = name

\* a map that writes the input to the first field, whatever the current field
SetValueFirst(form_fields, name, input) ==
  IF form_fields = << >> THEN << >>
  ELSE << [Head(form_fields) EXCEPT !.value = input] >> \o Tail(form_fields)

\* a map that copies the fields and records nothing
SetValueKeeps(form_fields, name, input) == form_fields

\* form_fields.map(f => f.name === current_field ? { ...f, value: input } : { ...f })
RECURSIVE SetValue(_, _, _)
SetValue(form_fields, name, input) ==
  IF form_fields = << >> THEN << >>
  ELSE << IF Head(form_fields).name = name
          THEN [Head(form_fields) EXCEPT !.value = input]
          ELSE Head(form_fields) >> \o SetValue(Tail(form_fields), name, input)

\* a filter that takes an empty string for an answer
remainingFieldsUndefinedOnly(form_fields) ==
  SelectSeq(form_fields, LAMBDA f : Nullish(f.value))

\* a filter that also keeps the field just answered
remainingFieldsAll(form_fields) == form_fields

\* a filter that takes the first unanswered field for answered, whatever
\* the answer was
remainingFieldsSkipFirst(form_fields) ==
  LET unset == SelectSeq(form_fields, LAMBDA f : Unset(f.value))
  IN IF unset = << >> THEN unset ELSE Tail(unset)

\* updatedFields.filter(f => f.value === null || f.value === "" || f.value === undefined)
remainingFields(form_fields) == SelectSeq(form_fields, LAMBDA f : Unset(f.value))

\* a collector that asks next for the first unanswered field after the one
\* just answered, and starts over from the top only when there is none
formFillingNodeRoundRobin(state, llmOk) ==
  IF ~HasField(state.form_fields, state.current_field) THEN state
  ELSE LET updatedFields == SetValue(state.form_fields, state.current_field, state.input)
           remaining == remainingFields(updatedFields)
           at == CHOOSE i \in 1..Len(updatedFields) :
                    updatedFields[i].name = state.current_field
           later == remainingFields(SubSeq(updatedFields, at + 1, Len(updatedFields)))
           nextField == IF later # << >> THEN later[1] ELSE remaining[1]
           human == HumanMessage(state.input)
       IN IF ~llmOk THEN [state EXCEPT !.form_status = "in_progress"]
          ELSE IF Len(remaining) > 0
          THEN [chat_history |-> state.chat_history \o
                                   << human, AIQuestion(nextField.name) >>,
                form_fields |-> updatedFields,
                current_field |-> nextField.name,
                form_status |-> "in_progress"]
          ELSE [chat_history |-> state.chat_history \o << human, AIMessage("summary") >>,
                form_fields |-> updatedFields,
                current_field |-> Undef,
                form_status |-> "completed",
                is_form_filling_started |-> FALSE,
                isFormReady |-> TRUE]

\* a collector whose completion leaves the collection flag up
formFillingNodeKeepsStarted(state, llmOk) ==
  IF ~HasField(state.form_fields, state.current_field) THEN state
  ELSE LET updatedFields == SetValue(state.form_fields, state.current_field, state.input)
           remaining == remainingFields(updatedFields)
           human == HumanMessage(state.input)
       IN IF ~llmOk THEN [state EXCEPT !.form_status = "in_progress"]
          ELSE IF Len(remaining) > 0
          THEN [chat_history |-> state.chat_history \o
                                   << human, AIQuestion(remaining[1].name) >>,
                form_fields |-> updatedFields,
                current_field |-> remaining[1].name,
                form_status |-> "in_progress"]
          ELSE [chat_history |-> state.chat_history \o << human, AIMessage("summary") >>,
                form_fields |-> updatedFields,
                current_field |-> Undef,
                form_status |-> "completed",
                isFormReady |-> TRUE]

\* a collector that, when the current field is not found, still logs the input
\* in the history
formFillingNodeLogsInput(state, llmOk) ==
  IF ~HasField(state.form_fields, state.current_field)
  THEN [state EXCEPT !.chat_history = @ \o << HumanMessage(state.input) >>]
  ELSE LET updatedFields == SetValue(state.form_fields, state.current_field, state.input)
           remaining == remainingFields(updatedFields)
           human == HumanMessage(state.input)
       IN IF ~llmOk THEN [state EXCEPT !.form_status = "in_progress"]
          ELSE IF Len(remaining) > 0
          THEN [chat_history |-> state.chat_history \o
                                   << human, AIQuestion(remaining[1].name) >>,
                form_fields |-> updatedFields,
                current_field |-> remaining[1].name,
                form_status |-> "in_progress"]
          ELSE [chat_history |-> state.chat_history \o << human, AIMessage("summary") >>,
                form_fields |-> updatedFields,
                current_field |-> Undef,
                form_status |-> "completed",
                is_form_filling_started |-> FALSE,
                isFormReady |-> TRUE]

formFillingNode(state, llmOk) ==
  IF ~HasField(state.form_fields, state.current_field) THEN state
  ELSE LET updatedFields == SetValue(state.form_fields, state.current_field, state.input)
           remaining == remainingFields(updatedFields)
           human == HumanMessage(state.input)
       IN IF ~llmOk THEN [state EXCEPT !.form_status = "in_progress"]
          ELSE IF Len(remaining) > 0
          THEN [chat_history |-> state.chat_history \o
                                   << human, AIQuestion(remaining[1].name) >>,
                form_fields |-> updatedFields,
                current_field |-> remaining[1].name,
                form_status |-> "in_progress"]
          ELSE [chat_history |-> state.chat_history \o << human, AIMessage("summary") >>,
                form_fields |-> updatedFields,
                current_field |-> Undef,
                form_status |-> "completed",
                is_form_filling_started |-> FALSE,
                isFormReady |-> TRUE]

\* the confirmation message; its last part (downloadInfo) tells what became of
\* the PDF
ConfirmationMessage(pdf) ==
  [type |-> "ai", content |-> "confirmation",
   about |-> IF pdf = "ok" THEN "download" ELSE IF pdf = "failed" THEN "no_pdf"
             ELSE "no_template"]

\* a finalizer in which a renderer failure ends in the node's catch block
submitFormNodePdfFatal(state, pdf) ==
  IF pdf \in {"error", "failed"}
  THEN [state EXCEPT !.chat_history = state.chat_history \o << AIMessage("submit_error") >>,
                     !.current_node = "submit_form",
                     !.last_node = state.current_node]
  ELSE [chat_history |-> state.chat_history \o << ConfirmationMessage(pdf) >>,
        current_node |-> "submit_form",
        last_node |-> state.current_node,
        awaiting_input |-> FALSE,
        is_form_filling_started |-> FALSE,
        form_id |-> Undef,
        form_name |-> Undef,
        form_fields |-> << >>,
        current_field |-> Undef,
        last_field |-> Undef,
        isFormfillingInterupted |-> FALSE,
        form_status |-> Undef,
        isFormReady |-> FALSE]

\* pdf: "ok", "failed" (the renderer throws), "no_template", or "error" (outer catch)
submitFormNode(state, pdf) ==
  IF pdf = "error"
  THEN [state EXCEPT !.chat_history = state.chat_history \o << AIMessage("submit_error") >>,
                     !.current_node = "submit_form",
                     !.last_node = state.current_node]
  ELSE [chat_history |-> state.chat_history \o << ConfirmationMessage(pdf) >>,
        current_node |-> "submit_form",
        last_node |-> state.current_node,
        awaiting_input |-> FALSE,
        is_form_filling_started |-> FALSE,
        form_id |-> Undef,
        form_name |-> Undef,
        form_fields |-> << >>,
        current_field |-> Undef,
        last_field |-> Undef,
        isFormfillingInterupted |-> FALSE,
        form_status |-> Undef,
        isFormReady |-> FALSE]

PdfOutcomes == {"ok", "failed", "no_template", "error"}


(***************************************************************************)
(* General assistant (formAssistantAgent) and its node                     *)
(***************************************************************************)
\* user inputs of the model
ChatInputs == {"yes", "What forms are available?"}
AnswerInputs == {"", "a", "b"}

\* confirmationKeywords.some(keyword => lowerInput.includes(keyword)):
\* of the inputs above only "yes" contains a keyword
isFormSubmissionConfirmation(input) == input \in {"yes"}

\* an initialisation that raises the flag and leaves the status and the
\* current field as they are
initializeFormFillingFlagOnly(sess) ==
  IF sess.form_fields = << >>
  THEN [success |-> FALSE, session |-> sess]
  ELSE [success |-> TRUE,
        session |-> [sess EXCEPT !.last_field = Null,
                                 !.awaiting_input = TRUE,
                                 !.isFormReady = FALSE,
                                 !.is_form_filling_started = TRUE]]

\* an initialisation that does not look at form_fields
initializeFormFillingUnchecked(sess) ==
  [success |-> TRUE,
   session |-> [sess EXCEPT !.current_field = IF sess.form_fields = << >> THEN Undef
                                              ELSE sess.form_fields[1].name,
                            !.last_field = Null,
                            !.awaiting_input = TRUE,
                            !.form_status = "in_progress",
                            !.isFormReady = FALSE,
                            !.is_form_filling_started = TRUE]]

\* initializeFormFilling: success flag and the session it returns
initializeFormFilling(sess) ==
  IF sess.form_fields = << >>
  THEN [success |-> FALSE, session |-> sess]
  ELSE [success |-> TRUE,
        session |-> [sess EXCEPT !.current_field = sess.form_fields[1].name,
                                 !.last_field = Null,
                                 !.awaiting_input = TRUE,
                                 !.form_status = "in_progress",
                                 !.isFormReady = FALSE,
                                 !.is_form_filling_started = TRUE]]

MAX_ITERATIONS == 5

ToolNames == {"ReadGovermentDocs", "FetchAllAvailableForms", "fetchFormStructureById",
              "SubmitFormTool"}

\* outputs of the assistant's model in one iteration of the tool loop
AgentOutputs ==
  [kind : {"tool"}, tool : {"fetchFormStructureById"},
   arg : {"PAN001", "INS001", "XYZ999"}, resp : BOOLEAN]
  \cup [kind : {"tool"}, tool : {"FetchAllAvailableForms", "NoSuchTool"},
        arg : {"-"}, resp : BOOLEAN]
  \cup [kind : {"tool"}, tool : {"SubmitFormTool"}, arg : {"throws"}, resp : BOOLEAN]
  \cup [kind : {"response", "text", "empty", "unparsable", "throws"}, tool : {"-"},
        arg : {"-"}, resp : {FALSE}]

\* tool.invoke(preparedInput) throws: SubmitFormTool has no try block of its own
\* and throws when the submission API does
ToolThrows(tool, arg) == tool = "SubmitFormTool" /\ arg = "throws"

\* the tool call failed: it threw, or it returned an error
ToolFailed(tool, arg, toolResult) ==
  ToolThrows(tool, arg) \/ "error" \in DOMAIN toolResult

\* tool.invoke(preparedInput)
ToolInvoke(tool, arg) ==
  IF tool = "fetchFormStructureById" THEN FindForm(arg)
  ELSE IF tool = "FetchAllAvailableForms" THEN [forms |-> "PAN001, INS001"]
  ELSE [referenceId |-> "REF"]

\* session = { ...session, form_id: toolResult.formId || ... || session.form_id, ... }
UpdateFromTool(sess, toolResult) ==
  IF "error" \in DOMAIN toolResult THEN sess
  ELSE [sess EXCEPT
          !.form_id = IF "formId" \in DOMAIN toolResult THEN toolResult.formId ELSE @,
          !.form_name = IF "formName" \in DOMAIN toolResult THEN toolResult.formName ELSE @,
          !.form_fields = IF "fields" \in DOMAIN toolResult THEN toolResult.fields ELSE @]

\* the agent's locals: its session, the loop counter, whether it has returned,
\* the response it returned, whether it went through its catch block and
\* whether the last tool call of this turn failed
AgentStart(sess) ==
  [session |-> sess, iterations |-> 0, done |-> FALSE, response |-> "", failed |-> FALSE,
   toolError |-> FALSE]

NoAgent == AgentStart(Defaults)

\* one iteration of the tool loop on the model output o
AgentStep(a, o) ==
  LET it == a.iterations + 1
      final(text) == [a EXCEPT !.iterations = it, !.done = TRUE, !.response = text]
  IN IF o.kind = "throws"
     THEN [a EXCEPT !.iterations = it, !.done = TRUE, !.response = "agent_error",
                    !.failed = TRUE]
     ELSE IF o.kind = "tool"
     THEN IF o.tool \notin ToolNames THEN [a EXCEPT !.iterations = it]
          ELSE IF ToolThrows(o.tool, o.arg)
          THEN [a EXCEPT !.iterations = it, !.toolError = TRUE]
          ELSE LET toolResult == ToolInvoke(o.tool, o.arg)
                   sess == UpdateFromTool(a.session, toolResult)
                   failed == ToolFailed(o.tool, o.arg, toolResult)
               IN IF o.resp
                  THEN [a EXCEPT !.iterations = it, !.done = TRUE, !.session = sess,
                                 !.toolError = failed,
                                 !.response = IF "fields" \in DOMAIN toolResult
                                              THEN "form_structure" ELSE "reply"]
                  ELSE [a EXCEPT !.iterations = it, !.session = sess,
                                 !.toolError = failed]
     ELSE IF o.kind = "unparsable" THEN [a EXCEPT !.iterations = it]
     ELSE IF o.kind = "empty" THEN final("default_reply")
     ELSE final("reply")

\* a loop that, left without a final response, returns the empty response
AgentExhaustedSilent(a) == [a EXCEPT !.done = TRUE, !.response = ""]

\* the loop left because iterations reached MAX_ITERATIONS: the default message
AgentExhausted(a) == [a EXCEPT !.done = TRUE, !.response = "default_reply"]

\* the confirmation branch: initialise the form; memOk: memory.saveContext succeeds
AgentConfirm(sess, memOk) ==
  LET initResult == initializeFormFilling(sess)
  IN IF ~memOk
     THEN [session |-> initResult.session, iterations |-> 0, done |-> TRUE,
           response |-> "agent_error", failed |-> TRUE, toolError |-> FALSE]
     ELSE [session |-> initResult.session, iterations |-> 0, done |-> TRUE,
           response |-> IF initResult.success THEN "init_response" ELSE "init_error",
           failed |-> ~initResult.success, toolError |-> FALSE]

RECURSIVE AgentLoop(_, _)
\* the tool loop run on a script of model outputs
AgentLoop(a, script) ==
  IF a.done THEN a
  ELSE IF a.iterations >= MAX_ITERATIONS \/ script = << >> THEN AgentExhausted(a)
  ELSE AgentLoop(AgentStep(a, Head(script)), Tail(script))

\* formAssistantNode's update from the agent's result
formAssistantNode(state, result) ==
  [chat_history |-> state.chat_history \o
       << HumanMessage(state.input), AIMessage(result.response) >>,
   last_node |-> state.current_node,
   current_node |-> "form_assistant_agent",
   form_id |-> Coalesce(result.session.form_id, state.form_id),
   form_name |-> Coalesce(result.session.form_name, state.form_name),
   form_fields |-> CoalesceFields(result.session.form_fields, state.form_fields),
   form_status |-> Coalesce(result.session.form_status, state.form_status),
   current_field |-> Coalesce(result.session.current_field, state.current_field),
   last_field |-> Coalesce(result.session.last_field, state.last_field),
   awaiting_input |-> result.session.awaiting_input,
   is_form_filling_started |-> result.session.is_form_filling_started,
   isFormfillingInterupted |-> result.session.isFormfillingInterupted]

(***************************************************************************)
(* runGraph                                                                *)
(***************************************************************************)
\* the state the selected node receives: the input, then the router's update
AtNode(input, sess, reply) ==
  LET s0 == GraphInput(input, sess) IN Merge(s0, routerNode(s0, reply))

\* the catch block of runGraph: the fallback state (isFormReady is left out of
\* it: the flag reads as false and is false in the next turn's graph state)
runGraphFallback(input, sess) ==
  [input |-> input,
   chat_history |-> sess.chat_history \o
       << HumanMessage(input), AIMessage("graph_apology") >>,
   current_node |-> "form_assistant_agent",
   last_node |-> sess.current_node,
   awaiting_input |-> FALSE,
   is_form_filling_started |-> sess.is_form_filling_started,
   form_status |-> IF Nullish(sess.form_status) THEN "not_started" ELSE sess.form_status,
   form_id |-> sess.form_id,
   form_name |-> sess.form_name,
   form_fields |-> sess.form_fields,
   current_field |-> sess.current_field,
   last_field |-> sess.last_field,
   isFormfillingInterupted |-> sess.isFormfillingInterupted,
   isFormReady |-> FALSE]

\* formAssistantAgent run to its return; env: what the adapters do in this turn
formAssistantAgent(sess, env) ==
  IF isFormSubmissionConfirmation(sess.input) /\ ~sess.is_form_filling_started
  THEN AgentConfirm(sess, env.ok)
  ELSE AgentLoop(AgentStart(sess), env.script)

\* runGraph: the state it returns for an input and the caller's session
runGraph(input, sess, env) ==
  IF ~env.graphOk THEN runGraphFallback(input, sess)
  ELSE LET atNode == AtNode(input, sess, env.reply)
           handler == routeToAgent(atNode)
           update ==
             IF handler = "form_filling_agent" THEN formFillingNode(atNode, env.ok)
             ELSE IF handler = "status_tracking_agent"
             THEN statusTrackingNode(atNode, env.ok)
             ELSE IF handler = "submit_form" THEN submitFormNode(atNode, env.pdf)
             ELSE formAssistantNode(atNode, formAssistantAgent(atNode, env))
       IN Merge(atNode, update)


(***************************************************************************)
(* A conversation: the turns of one session, each the result of runGraph   *)
(* on the session the previous turn returned                               *)
(***************************************************************************)
VARIABLES
  session,      \* the session state between turns
  pc,           \* "idle", or "loop" while the assistant's tool loop runs
  cur,          \* the turn in progress: its input, router reply and node state
  agent,        \* the locals of the running formAssistantAgent
  turn,         \* the last completed turn: handler, input, reply, states, outcome
  origin,       \* where the run started: "fresh" or the form just initialised
  left,         \* turns left to explore
  failures,     \* failed turns so far
  varied,       \* answers so far that differ from the plain answer
  inputs,       \* the inputs of the turns completed so far
  stored,       \* the server: whether the store holds the session's key
  store,        \* the server: the session state kept under that key
  handlers,     \* the server: the handleMessage call of each message
  build,        \* the server: which of the two server sources is running
  toolResultsCache, \* the process: the form ids whose structure is cached
  records,      \* the store: the stored state of each session id
  calls,        \* the process: the running assistant turn of each session id
  touched,      \* the cache keys the turns of each session id read or wrote
  own,          \* the cache keys each session id wrote since the process started
  foreign,      \* whether a session id was given a structure it had not cached
  quota,        \* turns left to each session id
  restarts,     \* restarts of the server process so far
  clients,      \* the sockets: the connection registered under the session id
  sockets,      \* the sockets: the readyState of each connection
  deliveries,   \* the sockets: the handling of each message received
  messages,     \* ChatbotAgent: the message list of the chat session
  chats         \* ChatbotAgent: the calls of chat on that session

conversation == << session, pc, cur, agent, turn, origin, left, failures, varied,
                   inputs >>
sessions == << toolResultsCache, records, calls, touched, own, foreign, quota,
               restarts >>
connections == << clients, sockets, deliveries >>
chatbot == << messages, chats >>
server == << stored, store, handlers, build, sessions, connections, chatbot >>
vars == << conversation, server >>

\* the two sources of ChatWebSocketServer in the repository
Builds == {"index.ts", "part_009"}

\* a handleMessage call: where it is, the message's content, whether the
\* store held the session when the call read it and what it held, the state
\* the call went on with, the state runGraph returned to it, the event it
\* sent to the client, and whether its read and its write of the store
\* went through
NoHandler == [pc |-> "waiting", content |-> "", found |-> FALSE, loaded |-> Defaults,
              previousState |-> Defaults, resultState |-> Defaults, sent |-> "none",
              loadOk |-> TRUE, saveOk |-> TRUE]

\* the session ids of the model
SessionIds == {"A", "B"}

\* no assistant turn running
NoCall == [pc |-> "idle", agent |-> AgentStart(Defaults), atNode |-> Defaults]

\* the connections and the messages of the model
Conns == {1, 2}
Deliveries == 1..MaxSocketMessages

\* a message not yet received: the connection it arrives on, the client
\* record its handler found in the map, and the final events ('message' or
\* 'error') sent for it on each connection
NoDelivery == [pc |-> "none", on |-> 0, client |-> 0, finals |-> [c \in Conns |-> 0]]

\* no connection made yet
ConnectionsIdle ==
  /\ clients = 0
  /\ sockets = [c \in Conns |-> "connecting"]
  /\ deliveries = [m \in Deliveries |-> NoDelivery]

\* the calls of chat of the model
ChatCalls == 1..MaxChatCalls

\* a call of chat not yet made: its user message, the model's first reply
\* (content and number of tool calls), its final reply, and the value returned
NoChat == [pc |-> "none", message |-> "", response |-> "", tool_calls |-> 0,
           finalResponse |-> "", returned |-> ""]

\* a chat session just created by getSession
ChatIdle ==
  /\ messages = << >>
  /\ chats = [k \in ChatCalls |-> NoChat]

\* a process that has just started, and a store without sessions
SessionsIdle ==
  /\ toolResultsCache = {}
  /\ records = [s \in SessionIds |-> createInitialSession]
  /\ calls = [s \in SessionIds |-> NoCall]
  /\ touched = [s \in SessionIds |-> {}]
  /\ own = [s \in SessionIds |-> {}]
  /\ foreign = [s \in SessionIds |-> FALSE]
  /\ quota = [s \in SessionIds |-> 0]
  /\ restarts = 0

ServerIdle ==
  /\ stored = FALSE
  /\ store = Defaults
  /\ handlers = [m \in 1..MaxMessages |-> NoHandler]
  /\ build = "part_009"
  /\ SessionsIdle
  /\ ConnectionsIdle
  /\ ChatIdle

NoCur == [input |-> "", reply |-> [kind |-> "throws", content |-> "-"],
          atNode |-> Defaults]

NoTurn == [handler |-> "none", input |-> "", reply |-> NoCur.reply,
           pre |-> Defaults, atNode |-> Defaults, update |-> Defaults,
           outcome |-> "none"]

\* the session after the two opening turns on form f: the assistant fetches the
\* form's structure, then the user confirms and the form is initialised
FetchTurn(f) ==
  LET reply == [kind |-> "text", content |-> "form_assistant_agent"]
      content == "What forms are available?"
      s1 == AtNode(content, SetInput(createInitialSession, content), reply)
      r1 == AgentLoop(AgentStart(s1),
              << [kind |-> "tool", tool |-> "fetchFormStructureById", arg |-> f,
                  resp |-> TRUE] >>)
  IN Merge(s1, formAssistantNode(s1, r1))

InitialisedSession(f) ==
  LET reply == [kind |-> "text", content |-> "form_assistant_agent"]
      s2 == AtNode("yes", SetInput(FetchTurn(f), "yes"), reply)
  IN Merge(s2, formAssistantNode(s2, AgentConfirm(s2, TRUE)))

\* an environment in which no adapter fails
QuietEnv ==
  [reply |-> [kind |-> "text", content |-> "form_assistant_agent"],
   script |-> << [kind |-> "response", tool |-> "-", arg |-> "-", resp |-> FALSE] >>,
   ok |-> TRUE, graphOk |-> TRUE, pdf |-> "ok"]

\* the session after turns with the given inputs, none of them failing (the
\* comparison of the state with itself has it evaluated before the next turn)
RECURSIVE AfterTurns(_, _)
AfterTurns(sess, contents) ==
  IF contents = << >> THEN sess
  ELSE LET resultState == runGraph(Head(contents), SetInput(sess, Head(contents)),
                                   QuietEnv)
       IN IF resultState = resultState THEN AfterTurns(resultState, Tail(contents))
          ELSE sess

\* the session in which every field of form f has been answered
CollectedSession(f) ==
  AfterTurns(InitialisedSession(f), [i \in 1..Len(FindForm(f).fields) |-> "a"])

\* a run starts at one of four points of a conversation: the fresh session,
\* the session after the assistant fetched PAN001, after PAN001 was
\* initialised, or after PAN001 was collected to completion
Origins == {"fresh", "fetched", "PAN001", "collected"}

Init ==
  /\ origin \in Origins
  /\ session = IF origin = "fresh" THEN createInitialSession
               ELSE IF origin = "fetched" THEN FetchTurn("PAN001")
               ELSE IF origin = "collected" THEN CollectedSession("PAN001")
               ELSE InitialisedSession(origin)
  /\ left = IF origin \in FormIds THEN MaxCollectTurns ELSE MaxChatTurns
  /\ pc = "idle"
  /\ cur = NoCur
  /\ agent = NoAgent
  /\ turn = NoTurn
  /\ failures = 0
  /\ varied = 0
  /\ inputs = << >>
  /\ ServerIdle

InputsFor(sess) == IF sess.is_form_filling_started THEN AnswerInputs ELSE ChatInputs

\* router replies explored: all of them, except during the long collection of a
\* whole form, where the router's reply is fixed (the collector is selected
\* whatever the reply is, and the short runs explore every reply there)
RepliesFor(sess) ==
  IF origin \in FormIds /\ sess.is_form_filling_started
  THEN {[kind |-> "text", content |-> "form_assistant_agent"]}
  ELSE RouterReplies

Failure(outcome) == outcome \notin {"ok", "no_template", "no_field"}

MayFail == failures < MaxFailures

\* the end of a turn: the node's update merged into the graph state
Complete(handler, input, reply, atNode, update, outcome) ==
  /\ session' = Merge(atNode, update)
  /\ turn' = [handler |-> handler, input |-> input, reply |-> reply,
              pre |-> session, atNode |-> atNode, update |-> update,
              outcome |-> outcome]
  /\ left' = left - 1
  /\ failures' = IF Failure(outcome) THEN failures + 1 ELSE failures
  /\ inputs' = Append(inputs, input)
  /\ varied' = IF handler = "form_filling_agent" /\ input # "a" THEN varied + 1
               ELSE varied
  /\ pc' = "idle"
  /\ cur' = NoCur
  /\ agent' = NoAgent
  /\ UNCHANGED << origin, server >>

TurnFormFilling ==
  \E input \in InputsFor(session), reply \in RepliesFor(session), llmOk \in BOOLEAN :
    LET atNode == AtNode(input, SetInput(session, input), reply) IN
      /\ pc = "idle" /\ left > 0
      /\ routeToAgent(atNode) = "form_filling_agent"
      /\ llmOk \/ MayFail
      /\ input = "a" \/ varied < MaxVaried
      /\ Complete("form_filling_agent", input, reply, atNode,
                  formFillingNode(atNode, llmOk),
                  IF ~HasField(atNode.form_fields, atNode.current_field) THEN "no_field"
                  ELSE IF llmOk THEN "ok" ELSE "llm_error")

TurnStatusTracking ==
  \E input \in InputsFor(session), reply \in RepliesFor(session), agentOk \in BOOLEAN :
    LET atNode == AtNode(input, SetInput(session, input), reply) IN
      /\ pc = "idle" /\ left > 0
      /\ routeToAgent(atNode) = "status_tracking_agent"
      /\ agentOk \/ MayFail
      /\ Complete("status_tracking_agent", input, reply, atNode,
                  statusTrackingNode(atNode, agentOk),
                  IF agentOk THEN "ok" ELSE "status_error")

TurnSubmitForm ==
  \E input \in InputsFor(session), reply \in RepliesFor(session), pdf \in PdfOutcomes :
    LET atNode == AtNode(input, SetInput(session, input), reply) IN
      /\ pc = "idle" /\ left > 0
      /\ routeToAgent(atNode) = "submit_form"
      /\ pdf \in {"ok", "no_template"} \/ MayFail
      /\ Complete("submit_form", input, reply, atNode, submitFormNode(atNode, pdf),
                  IF pdf = "ok" THEN "ok" ELSE IF pdf = "failed" THEN "pdf_failed"
                  ELSE IF pdf = "error" THEN "submit_error" ELSE "no_template")

AgentOutcome(a) ==
  IF a.response = "agent_error" THEN "agent_error"
  ELSE IF a.response = "init_error" THEN "init_error"
  ELSE IF a.toolError THEN "tool_error" ELSE "ok"

\* the assistant is given a confirmation: the form is initialised in one step
TurnAssistantConfirm ==
  \E input \in InputsFor(session), reply \in RepliesFor(session), memOk \in BOOLEAN :
    LET atNode == AtNode(input, SetInput(session, input), reply)
        result == AgentConfirm(atNode, memOk)
    IN /\ pc = "idle" /\ left > 0
       /\ routeToAgent(atNode) = "form_assistant_agent"
       /\ isFormSubmissionConfirmation(input) /\ ~atNode.is_form_filling_started
       /\ ~Failure(AgentOutcome(result)) \/ MayFail
       /\ Complete("form_assistant_agent", input, reply, atNode,
                   formAssistantNode(atNode, result), AgentOutcome(result))

\* the assistant enters its tool loop
AssistantBegin ==
  \E input \in InputsFor(session), reply \in RepliesFor(session) :
    LET atNode == AtNode(input, SetInput(session, input), reply) IN
      /\ pc = "idle" /\ left > 0
      /\ routeToAgent(atNode) = "form_assistant_agent"
      /\ ~(isFormSubmissionConfirmation(input) /\ ~atNode.is_form_filling_started)
      /\ pc' = "loop"
      /\ cur' = [input |-> input, reply |-> reply, atNode |-> atNode]
      /\ agent' = AgentStart(atNode)
      /\ UNCHANGED << session, turn, origin, left, failures, varied, inputs,
                      server >>

AssistantReturn(a) ==
  Complete("form_assistant_agent", cur.input, cur.reply, cur.atNode,
           formAssistantNode(cur.atNode, a), AgentOutcome(a))

\* one iteration of the tool loop
AssistantIterate ==
  \E o \in AgentOutputs :
    /\ pc = "loop" /\ agent.iterations < MAX_ITERATIONS
    /\ (o.kind # "throws" /\ ~ToolFailed(o.tool, o.arg, ToolInvoke(o.tool, o.arg)))
          \/ MayFail
    /\ LET a == AgentStep(agent, o) IN
         IF a.done THEN AssistantReturn(a)
         ELSE /\ agent' = a
              /\ UNCHANGED << session, pc, cur, turn, origin, left, failures,
                              varied, inputs, server >>

\* the loop ends without a final response
AssistantExhaust ==
  /\ pc = "loop" /\ agent.iterations >= MAX_ITERATIONS
  /\ AssistantReturn(AgentExhausted(agent))

\* appGraph.invoke throws: runGraph returns its fallback state
TurnGraphFailure ==
  \E input \in InputsFor(session) :
    /\ pc = "idle" /\ left > 0 /\ MayFail
    /\ session' = runGraphFallback(input, session)
    /\ turn' = [handler |-> "none", input |-> input, reply |-> NoCur.reply,
                pre |-> session, atNode |-> session,
                update |-> runGraphFallback(input, session),
                outcome |-> "graph_error"]
    /\ left' = left - 1
    /\ failures' = failures + 1
    /\ inputs' = Append(inputs, input)
    /\ UNCHANGED << pc, cur, agent, origin, varied, server >>

Next ==
  \/ TurnFormFilling
  \/ TurnStatusTracking
  \/ TurnSubmitForm
  \/ TurnAssistantConfirm
  \/ AssistantBegin
  \/ AssistantIterate
  \/ AssistantExhaust
  \/ TurnGraphFailure

Spec == Init /\ [][Next]_vars

(***************************************************************************)
(* The WebSocket server: one handleMessage call per message of a session.  *)
(* A call runs up to its first await when the message arrives, and then    *)
(* from await to await; calls of different messages interleave there.      *)
(***************************************************************************)
\* JSON of a message ({type, content}) and the message getSessionState rebuilds
RECURSIVE Reconstruct(_)
Reconstruct(history) ==
  IF history = << >> THEN << >>
  ELSE LET msg == Head(history)
           rebuilt == IF msg.type = "ai"
                      THEN [type |-> "ai", content |-> msg.content, about |-> msg.about]
                      ELSE [type |-> "human", content |-> msg.content,
                            about |-> msg.about]
       IN << rebuilt >> \o Reconstruct(Tail(history))

\* saveSessionState: the serializable state (isFormReady is not part of it)
saveSessionState(state) == [state EXCEPT !.isFormReady = FALSE]

\* JSON.parse of a stored state, with its messages rebuilt
Parsed(state) == [state EXCEPT !.chat_history = Reconstruct(state.chat_history)]

\* getSessionState: the parsed state of the session's key
getSessionState == Parsed(store)

\* contents of the messages a client sends
MessageContents == ChatInputs \cup {"a"}

\* what the adapters do during the turns the server runs
ServerEnvs ==
  [reply : {[kind |-> "text", content |-> "form_assistant_agent"],
            [kind |-> "text", content |-> "status_tracking_agent"]},
   script : {<< [kind |-> "response", tool |-> "-", arg |-> "-", resp |-> FALSE] >>,
             << [kind |-> "tool", tool |-> "fetchFormStructureById",
                 arg |-> "PAN001", resp |-> TRUE] >>},
   ok : {TRUE}, graphOk : {TRUE}, pdf : {"ok"}]

\* the stored state after handleMessage has run, one after the other, on
\* messages with the given contents (the comparison of saved with itself has
\* the state evaluated before the next call is made)
RECURSIVE StoredAfter(_, _)
StoredAfter(state, contents) ==
  IF contents = << >> THEN state
  ELSE LET previousState == SetInput(Parsed(state), Head(contents))
           resultState == runGraph(Head(contents), previousState, QuietEnv)
           saved == saveSessionState(resultState)
       IN IF saved = saved THEN StoredAfter(saved, Tail(contents)) ELSE state

\* the stored state of a session whose form f lacks one answer
LastFieldLeft(f) ==
  StoredAfter(saveSessionState(InitialisedSession(f)),
              [i \in 1..(Len(FindForm(f).fields) - 1) |-> "a"])

\* {}: the object index.ts goes on with when nothing is stored, and the one
\* it gives to runGraph
EmptyObject ==
  [createInitialSession EXCEPT !.input = Undef, !.current_node = Undef,
                               !.last_node = Undef]

\* the keys of the record a build writes to the store: part_009 lists them,
\* index.ts writes JSON.stringify(state), every channel of the graph state
SerializedKeys(b) ==
  IF b = "index.ts" THEN Keys \cup {"memory"} ELSE Keys \ {"isFormReady"}

\* what saveSessionState of a build leaves of a state in the store
Serialized(b, state) == IF b = "index.ts" THEN state ELSE saveSessionState(state)

\* what getSessionState of a build makes of the stored state (index.ts
\* returns JSON.parse(json) as it is)
Deserialized(b, state) == IF b = "index.ts" THEN state ELSE Parsed(state)

\* the session argument of the call of runGraph in handleMessage
Given(b, h) ==
  IF b = "index.ts" THEN SetInput(EmptyObject, h.content) ELSE h.previousState

\* the server starts with no stored session, or with the stored session of a
\* PAN001 application that lacks its last answer
InitServer ==
  /\ stored \in BOOLEAN
  /\ store = IF stored THEN LastFieldLeft("PAN001") ELSE Defaults
  /\ handlers = [m \in 1..MaxMessages |-> NoHandler]
  /\ build \in Builds
  /\ SessionsIdle
  /\ ConnectionsIdle
  /\ ChatIdle
  /\ origin = "fresh"
  /\ session = createInitialSession
  /\ left = 0
  /\ pc = "idle"
  /\ cur = NoCur
  /\ agent = NoAgent
  /\ turn = NoTurn
  /\ failures = 0
  /\ varied = 0
  /\ inputs = << >>

\* ws.on('message'): handleMessage starts and stops at its first await, the
\* read of the store; messages of a connection arrive in order
Receive(m) ==
  \E content \in MessageContents :
    /\ handlers[m].pc = "waiting"
    /\ \A n \in 1..(m - 1) : handlers[n].pc # "waiting"
    /\ handlers' = [handlers EXCEPT ![m].pc = "load", ![m].content = content]
    /\ UNCHANGED << stored, store, build, sessions, connections, chatbot, conversation >>

\* previousState = await getSessionState(sessionId), or createInitialSession()
\* (index.ts: or {}); getSessionState returns undefined when nothing is stored
\* and when the read of the store or JSON.parse throws (loadOk false); the
\* call stops again at await runGraph
LoadSession(m) ==
  \E loadOk \in BOOLEAN :
    LET got == stored /\ loadOk IN
      /\ handlers[m].pc = "load"
      /\ handlers' = [handlers EXCEPT
                        ![m].pc = "run",
                        ![m].loadOk = loadOk,
                        ![m].found = stored,
                        ![m].loaded = Deserialized(build, store),
                        ![m].previousState =
                            IF build = "index.ts"
                            THEN (IF got THEN Deserialized(build, store)
                                  ELSE EmptyObject)
                            ELSE SetInput(IF got THEN getSessionState
                                          ELSE createInitialSession,
                                          handlers[m].content)]
      /\ UNCHANGED << stored, store, build, sessions, connections, chatbot, conversation >>

\* resultState = await runGraph(message.content, previousState)
\* (index.ts: await runGraph(message.content, {}))
RunGraph(m) ==
  \E env \in ServerEnvs :
    /\ handlers[m].pc = "run"
    /\ handlers' = [handlers EXCEPT
                      ![m].pc = "save",
                      ![m].resultState =
                          runGraph(handlers[m].content, Given(build, handlers[m]), env)]
    /\ UNCHANGED << stored, store, build, sessions, connections, chatbot, conversation >>

\* a save whose failure reaches the catch block of handleMessage
SaveSessionThrowing(m) ==
  \E saveOk \in BOOLEAN :
    /\ handlers[m].pc = "save"
    /\ stored' = (stored \/ saveOk)
    /\ store' = IF saveOk THEN Serialized(build, handlers[m].resultState) ELSE store
    /\ handlers' = [handlers EXCEPT ![m].pc = "answered", ![m].saveOk = saveOk,
                                    ![m].sent = IF saveOk THEN "message" ELSE "error"]
    /\ UNCHANGED << build, sessions, connections, chatbot, conversation >>

\* await saveSessionState(sessionId, resultState), which catches and logs
\* what the store throws (saveOk false); then the response is sent
SaveSession(m) ==
  \E saveOk \in BOOLEAN :
    /\ handlers[m].pc = "save"
    /\ stored' = (stored \/ saveOk)
    /\ store' = IF saveOk THEN Serialized(build, handlers[m].resultState) ELSE store
    /\ handlers' = [handlers EXCEPT ![m].pc = "answered", ![m].saveOk = saveOk,
                                    ![m].sent = "message"]
    /\ UNCHANGED << build, sessions, connections, chatbot, conversation >>

NextServer ==
  \E m \in 1..MaxMessages :
    \/ Receive(m)
    \/ LoadSession(m)
    \/ RunGraph(m)
    \/ SaveSession(m)

SpecServer == InitServer /\ [][NextServer]_vars

(***************************************************************************)
(* Assistant turns of several sessions in one server process. The process  *)
(* keeps toolResultsCache, a module-level Map, for as long as it runs; the *)
(* store keeps each session's record also across a restart of the process. *)
(***************************************************************************)
\* outputs of the assistant's model in the turns of this specification
SessionOutputs ==
  {[kind |-> "tool", tool |-> "fetchFormStructureById", arg |-> "PAN001", resp |-> TRUE],
   [kind |-> "tool", tool |-> "fetchFormStructureById", arg |-> "PAN001", resp |-> FALSE],
   [kind |-> "tool", tool |-> "fetchFormStructureById", arg |-> "INS001", resp |-> TRUE],
   [kind |-> "response", tool |-> "-", arg |-> "-", resp |-> FALSE]}

\* toolResultsCache.get(`form_structure_${session.form_id}`) of an iteration:
\* the key read, if session.form_id is set
CacheRead(a) == IF Nullish(a.session.form_id) THEN {} ELSE {a.session.form_id}

\* toolResultsCache.set(`form_structure_${formId}`, toolResult) of an
\* iteration: the key written, if the tool is fetchFormStructureById and its
\* result has fields
CacheWrite(o) ==
  IF o.kind = "tool" /\ o.tool = "fetchFormStructureById"
     /\ "fields" \in DOMAIN ToolInvoke(o.tool, o.arg)
  THEN {ToolInvoke(o.tool, o.arg).formId}
  ELSE {}

\* the variables of the other two specifications
elsewhere == << stored, store, handlers, build, connections, chatbot, conversation >>

InitSessions ==
  /\ toolResultsCache = {}
  /\ records = [s \in SessionIds |-> createInitialSession]
  /\ calls = [s \in SessionIds |-> NoCall]
  /\ touched = [s \in SessionIds |-> {}]
  /\ own = [s \in SessionIds |-> {}]
  /\ foreign = [s \in SessionIds |-> FALSE]
  /\ quota = [s \in SessionIds |-> MaxSessionTurns]
  /\ restarts = 0
  /\ stored = FALSE
  /\ store = Defaults
  /\ handlers = [m \in 1..MaxMessages |-> NoHandler]
  /\ build = "part_009"
  /\ ConnectionsIdle
  /\ ChatIdle
  /\ origin = "fresh"
  /\ session = createInitialSession
  /\ left = 0
  /\ pc = "idle"
  /\ cur = NoCur
  /\ agent = NoAgent
  /\ turn = NoTurn
  /\ failures = 0
  /\ varied = 0
  /\ inputs = << >>

\* a message of session s is handled by the assistant: the stored record is
\* loaded and the router has named the assistant
BeginCall(s) ==
  LET input == "What forms are available?"
      reply == [kind |-> "text", content |-> "form_assistant_agent"]
      atNode == AtNode(input, SetInput(Parsed(records[s]), input), reply)
  IN /\ calls[s].pc = "idle" /\ quota[s] > 0
     /\ routeToAgent(atNode) = "form_assistant_agent"
     /\ calls' = [calls EXCEPT ![s] = [pc |-> "loop", agent |-> AgentStart(atNode),
                                       atNode |-> atNode]]
     /\ quota' = [quota EXCEPT ![s] = @ - 1]
     /\ UNCHANGED << toolResultsCache, records, touched, own, foreign, restarts,
                     elsewhere >>

\* the end of the turn of s: the node's update is merged and the state saved
\* under the session's own key
Saved(s, a) == saveSessionState(Merge(calls[s].atNode, formAssistantNode(calls[s].atNode, a)))

\* one iteration of the tool loop in the turn of s: the cache is read for the
\* prompt, the model answers, the tool runs and its result is cached
IterateCall(s) ==
  \E o \in SessionOutputs :
    LET read == CacheRead(calls[s].agent)
        written == CacheWrite(o)
        a == AgentStep(calls[s].agent, o)
    IN /\ calls[s].pc = "loop" /\ calls[s].agent.iterations < MAX_ITERATIONS
       /\ toolResultsCache' = toolResultsCache \cup written
       /\ touched' = [touched EXCEPT ![s] = @ \cup read \cup written]
       /\ own' = [own EXCEPT ![s] = @ \cup written]
       /\ foreign' = [foreign EXCEPT
                        ![s] = @ \/ (read \cap toolResultsCache) \ own[s] # {}]
       /\ IF a.done
          THEN /\ records' = [records EXCEPT ![s] = Saved(s, a)]
               /\ calls' = [calls EXCEPT ![s] = NoCall]
          ELSE /\ calls' = [calls EXCEPT ![s].agent = a]
               /\ UNCHANGED records
       /\ UNCHANGED << quota, restarts, elsewhere >>

\* the loop of s ends without a final response
ExhaustCall(s) ==
  /\ calls[s].pc = "loop" /\ calls[s].agent.iterations >= MAX_ITERATIONS
  /\ records' = [records EXCEPT ![s] = Saved(s, AgentExhausted(calls[s].agent))]
  /\ calls' = [calls EXCEPT ![s] = NoCall]
  /\ UNCHANGED << toolResultsCache, touched, own, foreign, quota, restarts,
                  elsewhere >>

\* the server process is restarted between turns: the cache is empty again,
\* the store keeps the sessions
Restart ==
  /\ restarts < MaxRestarts
  /\ \A s \in SessionIds : calls[s].pc = "idle"
  /\ toolResultsCache' = {}
  /\ own' = [s \in SessionIds |-> {}]
  /\ restarts' = restarts + 1
  /\ UNCHANGED << records, calls, touched, foreign, quota, elsewhere >>

NextSessions ==
  \/ \E s \in SessionIds :
        \/ BeginCall(s)
        \/ IterateCall(s)
        \/ ExhaustCall(s)
  \/ Restart

SpecSessions == InitSessions /\ [][NextSessions]_vars

(***************************************************************************)
(* The field collector on its own: runs that start in the middle of a      *)
(* collection and consist of collector turns only.  The session a run      *)
(* starts from is what runGraph's caller hands it: a session some earlier  *)
(* turns returned, or one the store gave back with its current field or    *)
(* its fields missing (getSessionState parses whatever is under the key).  *)
(***************************************************************************)
\* current_field names a field of form_fields whose value is unset
Consistent(sess) ==
  \E i \in 1..Len(sess.form_fields) :
    /\ sess.form_fields[i].name = sess.current_field
    /\ Unset(sess.form_fields[i].value)

\* the sessions of form f after its first k fields were answered, k short of
\* the whole form
Collecting(f) ==
  {AfterTurns(InitialisedSession(f), [i \in 1..k |-> "a"]) :
     k \in 0..(Len(FindForm(f).fields) - 1)}

\* the same sessions with a current field that names no field, or without
\* their fields
Inconsistent(f) ==
  {[sess EXCEPT !.current_field = c] :
     sess \in Collecting(f), c \in {Undef, "no_such_field"}}
    \cup {[sess EXCEPT !.form_fields = << >>] : sess \in Collecting(f)}

\* turns given to a run: one per unanswered field, and one more for each turn
\* that may fail or bring an empty or varied answer
TurnsFor(sess) == Len(remainingFields(sess.form_fields)) + MaxFailures + MaxVaried

InitCollector ==
  /\ origin \in FormIds
  /\ session \in Collecting(origin) \cup Inconsistent(origin)
  /\ left = TurnsFor(session)
  /\ pc = "idle"
  /\ cur = NoCur
  /\ agent = NoAgent
  /\ turn = NoTurn
  /\ failures = 0
  /\ varied = 0
  /\ inputs = << >>
  /\ ServerIdle

NextCollector == TurnFormFilling

SpecCollector == InitCollector /\ [][NextCollector]_vars

\* a collector turn as the turn counter sees it: the collector is selected
\* whenever the flag is up (routeToAgent), and takes one of the turns left
AnswerGiven ==
  /\ pc = "idle" /\ left > 0
  /\ session.is_form_filling_started
  /\ left' = left - 1

\* the user keeps answering: a collector turn that can be taken is taken
SpecCollectorFair == SpecCollector /\ WF_left(AnswerGiven)

(***************************************************************************)
(* The connections of one session id.  setupWebSocket registers each       *)
(* connection in the clients map under its session id, and its close and   *)
(* error handlers delete that key.  handleMessage looks the session id up  *)
(* in the map and sends its events on the socket it finds there.           *)
(***************************************************************************)
\* the variables of the other specifications
besideConnections == << stored, store, handlers, build, sessions, chatbot,
                        conversation >>

InitSockets ==
  /\ ConnectionsIdle
  /\ stored = FALSE
  /\ store = Defaults
  /\ handlers = [m \in 1..MaxMessages |-> NoHandler]
  /\ build \in Builds
  /\ SessionsIdle
  /\ ChatIdle
  /\ origin = "fresh"
  /\ session = createInitialSession
  /\ left = 0
  /\ pc = "idle"
  /\ cur = NoCur
  /\ agent = NoAgent
  /\ turn = NoTurn
  /\ failures = 0
  /\ varied = 0
  /\ inputs = << >>

\* wss.on('connection'): this.clients.set(sessionId, clientConnection)
Connect(c) ==
  /\ sockets[c] = "connecting"
  /\ sockets' = [sockets EXCEPT ![c] = "open"]
  /\ clients' = c
  /\ UNCHANGED << deliveries, besideConnections >>

\* ws.on('close') and ws.on('error') of connection c:
\* this.clients.delete(sessionId), whichever connection is registered
Disconnect(c) ==
  /\ sockets[c] = "open"
  /\ sockets' = [sockets EXCEPT ![c] = "closed"]
  /\ clients' = 0
  /\ UNCHANGED << deliveries, besideConnections >>

\* sendMessage(ws, data): sent only if ws.readyState === WebSocket.OPEN
SendFinal(d, c) ==
  IF c # 0 /\ sockets[c] = "open"
  THEN [d EXCEPT !.finals[c] = @ + 1]
  ELSE d

\* ws.on('message') of connection c, up to handleMessage's first await: a
\* message that does not parse is answered with an error event on c; one that
\* parses is handled for the client the map holds, or dropped if it holds none
ReceiveOn(m, c) ==
  \E parses \in BOOLEAN :
    /\ sockets[c] = "open"
    /\ deliveries[m].pc = "none"
    /\ IF m = 1 THEN TRUE ELSE deliveries[m - 1].pc # "none"
    /\ deliveries' =
         [deliveries EXCEPT ![m] =
            IF ~parses
            THEN [SendFinal(@, c) EXCEPT !.pc = "done", !.on = c]
            ELSE IF clients = 0 THEN [@ EXCEPT !.pc = "done", !.on = c]
            ELSE [@ EXCEPT !.pc = "running", !.on = c, !.client = clients]]
    /\ UNCHANGED << clients, sockets, besideConnections >>

\* the rest of handleMessage: the 'message' event after the turn was saved,
\* or the 'error' event of its catch block, on client.ws
Reply(m) ==
  /\ deliveries[m].pc = "running"
  /\ deliveries' = [deliveries EXCEPT
                      ![m] = [SendFinal(@, @.client) EXCEPT !.pc = "done"]]
  /\ UNCHANGED << clients, sockets, besideConnections >>

NextSockets ==
  \/ \E c \in Conns : Connect(c)
  \/ \E c \in Conns : Disconnect(c)
  \/ \E m \in Deliveries, c \in Conns : ReceiveOn(m, c)
  \/ \E m \in Deliveries : Reply(m)

SpecSockets == InitSockets /\ [][NextSockets]_vars

(***************************************************************************)
(* ChatbotAgent.chat on one chat session (the REST fallback of the         *)
(* server).  A call stops at each await: the model's first reply, the      *)
(* execution of the tool calls, the model's final reply.  Calls on the     *)
(* same session id interleave at these points.                             *)
(***************************************************************************)
\* the variables of the other specifications
besideChatbot == << stored, store, handlers, build, sessions, connections,
                    conversation >>

\* contents of the model's replies
ChatReplies == {"r1", "r2"}

\* a message of session.messages; call: the call of chat that pushed it
ChatMessage(role, content, tool_calls, k) ==
  [role |-> role, content |-> content, tool_calls |-> tool_calls, call |-> k]

InitChat ==
  /\ ChatIdle
  /\ ConnectionsIdle
  /\ stored = FALSE
  /\ store = Defaults
  /\ handlers = [m \in 1..MaxMessages |-> NoHandler]
  /\ build = "part_009"
  /\ SessionsIdle
  /\ origin = "fresh"
  /\ session = createInitialSession
  /\ left = 0
  /\ pc = "idle"
  /\ cur = NoCur
  /\ agent = NoAgent
  /\ turn = NoTurn
  /\ failures = 0
  /\ varied = 0
  /\ inputs = << >>

\* chat is called: the user message is pushed and the model is invoked
ChatStart(k) ==
  /\ chats[k].pc = "none"
  /\ IF k = 1 THEN TRUE ELSE chats[k - 1].pc # "none"
  /\ messages' = Append(messages, ChatMessage("user", "hello", 0, k))
  /\ chats' = [chats EXCEPT ![k].pc = "first", ![k].message = "hello"]
  /\ UNCHANGED besideChatbot

\* the first invoke returns (or throws): without tool calls the reply is
\* pushed and returned; with tool calls the call goes on to execute them
ChatFirstReply(k) ==
  \E content \in ChatReplies, n \in 0..MaxToolCalls, ok \in BOOLEAN :
    /\ chats[k].pc = "first"
    /\ IF ~ok
       THEN /\ chats' = [chats EXCEPT ![k].pc = "thrown"]
            /\ UNCHANGED messages
       ELSE IF n = 0
       THEN /\ messages' = Append(messages, ChatMessage("assistant", content, 0, k))
            /\ chats' = [chats EXCEPT ![k].pc = "returned", ![k].response = content,
                                      ![k].returned = content]
       ELSE /\ chats' = [chats EXCEPT ![k].pc = "tools", ![k].response = content,
                                      ![k].tool_calls = n]
            /\ UNCHANGED messages
    /\ UNCHANGED besideChatbot

\* executeFunctions has returned one result per tool call: the assistant
\* message with the tool calls and the tool results are pushed, and the model
\* is invoked again
ChatToolsDone(k) ==
  /\ chats[k].pc = "tools"
  /\ messages' = messages
       \o << ChatMessage("assistant", chats[k].response, chats[k].tool_calls, k) >>
       \o [i \in 1..chats[k].tool_calls |-> ChatMessage("tool", "result", 0, k)]
  /\ chats' = [chats EXCEPT ![k].pc = "second"]
  /\ UNCHANGED besideChatbot

\* the second invoke returns (or throws): the final reply is pushed; the
\* return of this branch being commented out, the call goes on to the
\* statements of the direct response, pushes response.content and returns it
ChatFinalReply(k) ==
  \E content \in ChatReplies, ok \in BOOLEAN :
    /\ chats[k].pc = "second"
    /\ IF ~ok
       THEN /\ chats' = [chats EXCEPT ![k].pc = "thrown"]
            /\ UNCHANGED messages
       ELSE /\ messages' = messages
                 \o << ChatMessage("assistant", content, 0, k),
                       ChatMessage("assistant", chats[k].response, 0, k) >>
            /\ chats' = [chats EXCEPT ![k].pc = "returned",
                                      ![k].finalResponse = content,
                                      ![k].returned = chats[k].response]
    /\ UNCHANGED besideChatbot

NextChat ==
  \/ \E k \in ChatCalls : ChatStart(k)
  \/ \E k \in ChatCalls : ChatFirstReply(k)
  \/ \E k \in ChatCalls : ChatToolsDone(k)
  \/ \E k \in ChatCalls : ChatFinalReply(k)

SpecChat == InitChat /\ [][NextChat]_vars

(***************************************************************************)
(* Properties                                                              *)
(***************************************************************************)
\* the last completed turn went through a node of the graph
ThroughGraph == turn.handler \in Nodes

\* values the classifier can leave in current_node, and values of form_status
CurrentNodes == validRoutes \cup {Undef}
FormStatuses == {Undef, "not_started", "in_progress", "completed"}

\* C1: whenever routeToAgent runs on a state whose is_form_filling_started is
\* true it selects form_filling_agent, whatever current_node the classifier
\* left (a route, the default after unrecognised text or a failure) and
\* whatever form_status is: the turn that ran on such a state was handled by
\* the collector, and so would a turn on the session with the flag up.
C1_StartedSelectsCollector ==
  /\ (ThroughGraph /\ turn.atNode.is_form_filling_started)
        => turn.handler = "form_filling_agent"
  /\ pc = "loop" => ~cur.atNode.is_form_filling_started
  /\ \A cn \in CurrentNodes, fs \in FormStatuses :
        routeToAgent([session EXCEPT !.is_form_filling_started = TRUE,
                                     !.current_node = cn,
                                     !.form_status = fs]) = "form_filling_agent"

\* a turn of a started collection for which the classifier (after
\* normalisation) chose the status tracker, handled by the collector
C1_Witness ==
  /\ turn.handler = "form_filling_agent"
  /\ turn.pre.is_form_filling_started
  /\ turn.atNode.current_node = "status_tracking_agent"

\* C2: merging a handler's update keeps every `update ?? current` field the
\* update omits: after a turn, each such field of the session has the value
\* the handler received, and a status-tracker turn leaves form_fields as the
\* session had them before the turn.
C2_MergeKeepsOmitted ==
  ThroughGraph =>
    /\ \A k \in NullishKeys \ DOMAIN turn.update : session[k] = turn.atNode[k]
    /\ turn.handler = "status_tracking_agent"
          => session.form_fields = turn.pre.form_fields

\* a status-tracker turn on a session that holds the fields of a form
C2_Witness ==
  /\ turn.handler = "status_tracking_agent"
  /\ turn.pre.form_fields # << >>
  /\ "form_fields" \notin DOMAIN turn.update
  /\ session.form_fields = turn.pre.form_fields

\* C3: after a turn handled by submit_form the session has form_id, form_name,
\* form_fields, current_field and last_field absent, is_form_filling_started
\* and isFormReady false, and form_status no longer completed, also when the
\* PDF could not be generated.
C3_SubmitResetsForm ==
  turn.handler = "submit_form" =>
    /\ Nullish(session.form_id)
    /\ Nullish(session.form_name)
    /\ session.form_fields = << >>
    /\ Nullish(session.current_field)
    /\ Nullish(session.last_field)
    /\ ~session.is_form_filling_started
    /\ ~session.isFormReady
    /\ session.form_status # "completed"

\* C4: in every reachable session state is_form_filling_started and
\* isFormReady are never both true.
C4_NeverStartedAndReady == ~(session.is_form_filling_started /\ session.isFormReady)

\* the collector has just completed a form: the session is ready, not started
C4_Witness ==
  /\ turn.handler = "form_filling_agent"
  /\ turn.pre.is_form_filling_started
  /\ session.isFormReady
  /\ ~session.is_form_filling_started

\* the catalog entry of the form a run started from, and its number of fields
Catalog == FindForm(origin).fields
NonEmpty(seq) == \A i \in 1..Len(seq) : seq[i] # ""

\* the run started from a just-initialised form and every turn so far was
\* given a non-empty answer
Answering == origin \in FormIds /\ pc = "idle" /\ NonEmpty(inputs)

\* the form is complete and holds the answers in catalog order
Collected ==
  /\ session.form_status = "completed"
  /\ ~session.is_form_filling_started
  /\ session.isFormReady
  /\ Len(session.form_fields) = Len(Catalog)
  /\ \A i \in 1..Len(Catalog) :
        /\ session.form_fields[i].name = Catalog[i].name
        /\ session.form_fields[i].value = inputs[i]

KthTurn(k) ==
  /\ turn.handler = "form_filling_agent"
  /\ \A j \in 1..k : session.form_fields[j].value = inputs[j]
  /\ \A j \in (k + 1)..Len(Catalog) : Unset(session.form_fields[j].value)
  /\ IF k < Len(Catalog)
     THEN /\ session.current_field = Catalog[k + 1].name
          /\ session.chat_history[Len(session.chat_history)]
                = AIQuestion(Catalog[k + 1].name)
          /\ session.is_form_filling_started
     ELSE session.isFormReady /\ session.form_status = "completed"

C7_ReadySelectsSubmit ==
  /\ (ThroughGraph /\ ~turn.atNode.is_form_filling_started
         /\ (turn.atNode.isFormReady \/ turn.atNode.form_status = "completed"))
        => turn.handler = "submit_form"
  /\ (~session.is_form_filling_started
         /\ (session.isFormReady \/ session.form_status = "completed"))
        => \A input \in ChatInputs, reply \in RouterReplies :
             LET atNode == AtNode(input, SetInput(session, input), reply)
             IN routeToAgent(atNode) = "submit_form"

\* a turn on a ready session for which the classifier chose the status tracker
C7_Witness ==
  /\ turn.handler = "submit_form"
  /\ turn.pre.isFormReady
  /\ ~turn.pre.is_form_filling_started
  /\ turn.reply = [kind |-> "text", content |-> "status_tracking_agent"]

\* a turn the graph handled with no collection running and no form completed
Unforced ==
  /\ ThroughGraph
  /\ ~turn.atNode.is_form_filling_started
  /\ turn.atNode.form_status # "completed"

\* C8 (as stated): the handler of a turn is one of the four nodes; when no
\* collection runs and no form is completed it is status_tracking_agent only
\* if the classifier returned exactly 'status_tracking_agent', and
\* form_assistant_agent for an exception or any other output.
C8_StatusOnlyIfExact ==
  /\ turn.outcome \notin {"none", "graph_error"} => ThroughGraph
  /\ Unforced =>
        IF turn.reply = [kind |-> "text", content |-> "status_tracking_agent"]
        THEN turn.handler = "status_tracking_agent"
        ELSE turn.handler = "form_assistant_agent"

\* C8 (amended): ... it is status_tracking_agent only if the classifier's
\* text, trimmed and lower-cased, is 'status_tracking_agent', and
\* form_assistant_agent for an exception or any other output.
C8_StatusOnlyIfNormalised ==
  /\ turn.outcome \notin {"none", "graph_error"} => ThroughGraph
  /\ Unforced =>
        IF /\ turn.reply.kind = "text"
           /\ turn.reply.content \in {"status_tracking_agent",
                                       " Status_Tracking_Agent\n"}
        THEN turn.handler = "status_tracking_agent"
        ELSE turn.handler = "form_assistant_agent"

\* the classifier's text has blanks and capitals: the status tracker runs
C8_Witness ==
  /\ Unforced
  /\ turn.reply = [kind |-> "text", content |-> " Status_Tracking_Agent\n"]
  /\ turn.handler = "status_tracking_agent"

\* entries is a run of consecutive entries of history
Contains(history, entries) ==
  \E i \in 0..(Len(history) - Len(entries)) :
    \A j \in 1..Len(entries) : history[i + j] = entries[j]

\* the history entries the turn of message m added to the state it loaded
Appended(m) ==
  SubSeq(handlers[m].resultState.chat_history,
         Len(handlers[m].previousState.chat_history) + 1,
         Len(handlers[m].resultState.chat_history))

\* C9: turns of one session are serialized, so that no turn's update is lost:
\* once the messages of a session have all been answered, the stored session
\* contains the history entries of every one of their turns.
C9_NoLostUpdate ==
  (\A m \in 1..MaxMessages : handlers[m].pc = "answered")
    => \A m \in 1..MaxMessages : Contains(store.chat_history, Appended(m))

\* C10: runGraph returns, for every input and session and also when the
\* router, a handler or the graph fails, a state whose chat_history ends with
\* the assistant message answering this turn: the turn added entries to the
\* history it was given, its input and, last, an assistant message.
C10_AlwaysAnswers ==
  (pc = "idle" /\ turn.outcome # "none") =>
    LET before == Len(turn.pre.chat_history)
        history == session.chat_history
    IN /\ Len(history) > before
       /\ history[Len(history)].type = "ai"
       /\ \E i \in (before + 1)..Len(history) : history[i] = HumanMessage(turn.input)

\* the fields and flags that record the progress of a form
FormProgressKeys == {"form_id", "form_name", "form_fields", "form_status",
                     "current_field", "last_field", "is_form_filling_started",
                     "isFormReady"}

\* the entries the last turn added to the history it was given
Added ==
  SubSeq(session.chat_history, Len(turn.pre.chat_history) + 1,
         Len(session.chat_history))

\* the generic apologies of the handlers and of runGraph
Apologies == {AIMessage("agent_error"), AIMessage("status_apology"),
              AIMessage("graph_apology")}

\* C11: when a handler fails during a turn (the model or a tool throws inside
\* the assistant, the status tracker or the collector, or the graph run
\* throws), the turn ends with every form field, flag and form_status at its
\* pre-turn value, current_node not advanced, and exactly one apology of the
\* assistant appended to the history.
C11_FailureKeepsState ==
  (pc = "idle"
     /\ turn.outcome \in {"agent_error", "status_error", "llm_error", "graph_error"})
    => /\ \A k \in FormProgressKeys : session[k] = turn.pre[k]
       /\ session.current_node = turn.pre.current_node
       /\ Len(SelectSeq(Added, LAMBDA msg : msg.type = "ai")) = 1
       /\ Added[Len(Added)] \in Apologies

\* C12: every completed turn, whichever handler processed it, extends the
\* history by exactly one user entry followed by one assistant entry.
C12_PairPerTurn ==
  (pc = "idle" /\ turn.outcome # "none")
    => /\ Len(Added) = 2
       /\ Added[1] = HumanMessage(turn.input)
       /\ Added[2].type = "ai"

IsPrefix(p, q) == Len(p) <= Len(q) /\ SubSeq(q, 1, Len(p)) = p

\* chat_history updates a handler could return: every sequence of at most
\* MaxUpdateLen messages
HistoryUpdates ==
  UNION {[1..n -> {HumanMessage("a"), AIMessage("reply")}] : n \in 0..MaxUpdateLen}

\* positions of update whose message is not already present in current (same
\* position, same type)
NotPresent(current, update) ==
  {i \in 1..Len(update) : ~(i <= Len(current) /\ current[i].type = update[i].type)}

\* C13: the history merge is append-only: for every merge of a chat_history
\* update into the stored history the prior history is a prefix of the result,
\* and what follows it is, in order, exactly the messages of the update not
\* already present at the same position with the same type.
C13_HistoryAppendOnly ==
  /\ ThroughGraph => IsPrefix(turn.pre.chat_history, session.chat_history)
  /\ \A update \in HistoryUpdates :
        LET current == session.chat_history
            merged == ChatHistoryReducer(current, update)
            added == SubSeq(merged, Len(current) + 1, Len(merged))
            new == NotPresent(current, update)
        IN /\ IsPrefix(current, merged)
           /\ Len(added) = Cardinality(new)
           /\ \A j \in 1..Len(added) :
                 \E i \in new : /\ Cardinality({k \in new : k < i}) = j - 1
                                /\ added[j] = update[i]

\* a handler returned the history it was given plus this turn's two
\* messages, and only the two were added
C13_Witness ==
  /\ ThroughGraph
  /\ Len(turn.atNode.chat_history) >= 2
  /\ IsPrefix(turn.atNode.chat_history, turn.update.chat_history)
  /\ Len(turn.update.chat_history) = Len(turn.atNode.chat_history) + 2
  /\ Len(session.chat_history) = Len(turn.atNode.chat_history) + 2

\* the state fields other than the history and the input
StateFields == Keys \ {"chat_history", "input"}

\* C14: the submission finalizer returns a confirmation and the same resets
\* whether the PDF is generated, the renderer throws, or the form has no
\* template: the renderer's failure does not make the turn an error and does
\* not change the resulting state (the confirmation's text alone tells what
\* became of the PDF).
C14_SubmitWhateverThePdf ==
  (turn.handler = "submit_form"
     /\ turn.outcome \in {"ok", "pdf_failed", "no_template"})
    => LET asGenerated == Merge(turn.atNode, submitFormNode(turn.atNode, "ok"))
       IN /\ \A k \in StateFields : session[k] = asGenerated[k]
          /\ Len(session.chat_history) = Len(asGenerated.chat_history)
          /\ session.chat_history[Len(session.chat_history)].content = "confirmation"
          /\ \A k \in DOMAIN turn.update \ {"chat_history"} :
                turn.update[k] = submitFormNode(turn.atNode, "ok")[k]

\* a submission whose renderer threw, confirmed all the same
C14_Witness ==
  /\ turn.handler = "submit_form"
  /\ turn.outcome = "pdf_failed"
  /\ session.chat_history[Len(session.chat_history)] = ConfirmationMessage("failed")
  /\ ~session.isFormReady

\* C15: in every reachable session state a current_field that is set names
\* an element of form_fields whose value is unset, also right after the last
\* field has been answered.
C15_CurrentFieldIsUnanswered ==
  ~Nullish(session.current_field)
    => \E i \in 1..Len(session.form_fields) :
         /\ session.form_fields[i].name = session.current_field
         /\ Unset(session.form_fields[i].value)

\* the required fields of the session that have no value
Outstanding ==
  {i \in 1..Len(session.form_fields) :
     session.form_fields[i].required /\ Unset(session.form_fields[i].value)}

\* C16: in every reachable state with form_status = completed every required
\* field has a non-empty value: after recording an answer the collector
\* marks the form completed only when no required field is outstanding.
C16_CompletedHasRequired ==
  /\ session.form_status = "completed" => Outstanding = {}
  /\ (turn.handler = "form_filling_agent" /\ Outstanding # {})
        => /\ session.form_status = "in_progress"
           /\ ~session.isFormReady

\* a form completed after one of its fields was first answered with the
\* empty string and asked for again
C16_Witness ==
  /\ session.form_status = "completed"
  /\ turn.handler = "form_filling_agent"
  /\ \E i \in 1..Len(inputs) : inputs[i] = ""
  /\ Len(session.form_fields) = Len(Catalog)
  /\ Outstanding = {}

\* the names and required flags of a list of fields, in order
Layout(form_fields) ==
  [i \in 1..Len(form_fields) |->
     [name |-> form_fields[i].name, required |-> form_fields[i].required]]

\* C17: in every reachable state with is_form_filling_started = true,
\* form_fields is present, non-empty, and lists the fields of the selected
\* form in the order and with the names of the catalog; a collector turn
\* never adds, removes or re-orders fields.
C17_FieldsFollowCatalog ==
  /\ session.is_form_filling_started
        => /\ session.form_fields # << >>
           /\ session.form_id \in FormIds
           /\ Layout(session.form_fields) = Layout(FindForm(session.form_id).fields)
  /\ turn.handler = "form_filling_agent"
        => Layout(session.form_fields) = Layout(turn.pre.form_fields)

\* collection started on the second form of the catalog
C17_Witness ==
  /\ session.is_form_filling_started
  /\ turn.handler = "form_assistant_agent"
  /\ session.form_id = "INS001"
  /\ Len(session.form_fields) = 9
  /\ session.current_field = "policy_holder_name"

\* a stored session with an application under way: started and not yet
\* handled by submit_form
Active(state) ==
  /\ state.form_status \in {"in_progress", "completed"}
  /\ state.current_node # "submit_form"

\* C18: during an active application, from the turn that starts collection
\* until the turn that submits the form and across persistence between
\* turns, exactly one of is_form_filling_started and isFormReady is true;
\* both are false before a form is started and after it has been submitted.
C18_ExactlyOneFlag ==
  stored =>
    IF Active(store)
    THEN store.is_form_filling_started # store.isFormReady
    ELSE ~store.is_form_filling_started /\ ~store.isFormReady

\* the value a channel of the graph reads from a session: an absent string
\* reads as the channel's default
AsRead(state, k) ==
  IF k \in StringKeys THEN Coalesce(state[k], Defaults[k]) ELSE state[k]

UnsetAt(form_fields) ==
  {i \in 1..Len(form_fields) : Unset(form_fields[i].value)}

\* C20: when the collector records an answer and unanswered fields remain, it
\* stores the input as the value of the field named by current_field and of
\* no other field, sets current_field to the first field in catalog order
\* whose value is still unset (first-unanswered, not round-robin from the
\* field just answered), and keeps form_status = in_progress and
\* is_form_filling_started = true.
C20_RecordsAndAsksFirstUnset ==
  (pc = "idle" /\ turn.handler = "form_filling_agent" /\ turn.outcome = "ok"
     /\ UnsetAt(session.form_fields) # {})
    => LET before == turn.pre.form_fields
           after == session.form_fields
           first == CHOOSE i \in UnsetAt(after) : \A j \in UnsetAt(after) : i <= j
       IN /\ Len(after) = Len(before)
          /\ Cardinality({i \in 1..Len(before) :
                            before[i].name = turn.pre.current_field}) = 1
          /\ \A i \in 1..Len(before) :
                after[i] = IF before[i].name = turn.pre.current_field
                           THEN [before[i] EXCEPT !.value = turn.input]
                           ELSE before[i]
          /\ session.current_field = after[first].name
          /\ Layout(after) = Layout(FindForm(session.form_id).fields)
          /\ session.form_status = "in_progress"
          /\ session.is_form_filling_started
          /\ ~session.isFormReady

\* a field after the first answered with the empty string: the answers
\* before it are kept and the same field is asked for again
C20_Witness ==
  /\ pc = "idle"
  /\ turn.handler = "form_filling_agent"
  /\ turn.outcome = "ok"
  /\ turn.input = ""
  /\ session.form_fields[1].value = "a"
  /\ session.current_field = turn.pre.current_field
  /\ session.current_field # session.form_fields[1].name
  /\ session.form_status = "in_progress"

\* the last turn was a start confirmation handled by the general assistant
\* on a session that was not collecting and held a form structure
StartConfirmed ==
  /\ pc = "idle"
  /\ turn.handler = "form_assistant_agent"
  /\ isFormSubmissionConfirmation(turn.input)
  /\ ~turn.pre.is_form_filling_started
  /\ turn.pre.form_fields # << >>

\* C21: when the general assistant handles an explicit confirmation to start
\* an application while is_form_filling_started is false and a form
\* structure is loaded in the session, the session after the turn has
\* current_field = the name of the first catalog field,
\* is_form_filling_started = true, form_status = in_progress, isFormReady =
\* false, and form_fields equal to the catalog fields with every value unset.
C21_ConfirmationStartsCollection ==
  StartConfirmed
    => /\ session.form_id \in FormIds
       /\ session.form_fields = FindForm(session.form_id).fields
       /\ \A i \in 1..Len(session.form_fields) : Unset(session.form_fields[i].value)
       /\ session.current_field = FindForm(session.form_id).fields[1].name
       /\ session.is_form_filling_started
       /\ session.form_status = "in_progress"
       /\ ~session.isFormReady

\* PAN001 was fetched, the user confirmed, and the assistant answered with
\* the field list and the first question
C21_Witness ==
  /\ StartConfirmed
  /\ turn.outcome = "ok"
  /\ turn.pre.form_status = "not_started"
  /\ session.form_id = "PAN001"
  /\ session.current_field = "full_name"
  /\ session.chat_history[Len(session.chat_history)] = AIMessage("init_response")

\* the responses that tell the user of a failure: the two fixed apologies of
\* formAssistantAgent, and a text the assistant's model wrote itself
ReadableApologies == {AIMessage("init_error"), AIMessage("agent_error"),
                      AIMessage("reply")}

\* (turn.outcome is tool_error when the last tool call of the turn failed and
\* the agent did not end in its catch block)
\* C22: if a tool call or the form initialisation fails inside the general
\* assistant (a start confirmation that arrives when no form structure is
\* loaded included), the turn returns a readable apology and
\* is_form_filling_started is false after the turn.
C22_FailureApologises ==
  (pc = "idle" /\ turn.handler = "form_assistant_agent"
     /\ turn.outcome \in {"tool_error", "init_error"})
    => /\ session.chat_history[Len(session.chat_history)] \in ReadableApologies
       /\ ~session.is_form_filling_started

\* the first turn of a fresh session asked which forms are available
FirstTurnAsksForForms ==
  /\ origin = "fresh"
  /\ pc = "idle"
  /\ inputs = << "What forms are available?" >>

\* the classifier's reply, normalised, names the status tracker
ClassifiedAsStatus ==
  turn.reply.kind = "text" /\ TrimLower(turn.reply.content) = "status_tracking_agent"

\* C23: on a fresh session, a first turn asking which forms are available is
\* never handled by the field collector or the submission finalizer; it is
\* handled by the general assistant for every reply of the classifier but
\* status_tracking_agent (then by the status tracker), and after that turn
\* is_form_filling_started is still false.
C23_FirstTurnToAssistant ==
  FirstTurnAsksForForms
    => /\ turn.handler \notin {"form_filling_agent", "submit_form"}
       /\ (ThroughGraph /\ ~ClassifiedAsStatus) => turn.handler = "form_assistant_agent"
       /\ (ThroughGraph /\ ClassifiedAsStatus) => turn.handler = "status_tracking_agent"
       /\ ~session.is_form_filling_started
       /\ session.form_status = "not_started"

\* the assistant answered the first question of a fresh session
C23_Witness ==
  /\ FirstTurnAsksForForms
  /\ turn.handler = "form_assistant_agent"
  /\ turn.outcome = "ok"
  /\ turn.reply = [kind |-> "text", content |-> "form_assistant_agent"]
  /\ session.chat_history = << HumanMessage("What forms are available?"),
                               AIMessage("reply") >>
  /\ ~session.is_form_filling_started

\* C23 as stated: whatever the classifier replies, the first turn of a fresh
\* session asking for the forms is handled by the general assistant and
\* leaves is_form_filling_started false.
C23_FirstTurnAlwaysAssistant ==
  (FirstTurnAsksForForms /\ ThroughGraph)
    => /\ turn.handler = "form_assistant_agent"
       /\ ~session.is_form_filling_started

\* a fresh state: empty history, all flags false, form_status read as
\* not_started
Fresh(state) ==
  /\ state.chat_history = << >>
  /\ \A k \in BoolKeys : ~state[k]
  /\ AsRead(state, "form_status") = "not_started"

\* C24: each turn starts from the session state persisted by the previous
\* completed turn of the session (its history, flags and form_* fields are
\* what the router and the handler see), and starts from a fresh state only
\* when no session is stored: the state given to runGraph is the stored
\* state when the store held the session at the time it was read, and a
\* fresh state otherwise.
C24_StartsFromStored ==
  \A m \in 1..MaxMessages :
    handlers[m].pc \in {"run", "save", "answered"}
      => LET given == Given(build, handlers[m])
         IN IF handlers[m].found
            THEN \A k \in Keys \ {"input"} : given[k] = handlers[m].loaded[k]
            ELSE Fresh(given)

\* the flags and the form_* fields of a session state
FlagsAndFormKeys ==
  BoolKeys \cup {"form_id", "form_name", "form_fields", "form_status",
                 "current_field", "last_field"}

\* C25: saving a session state and loading it back yields the same history
\* (same order, same role and text for each entry) and the same value for
\* every flag and form_* field, isFormReady included; the memory buffer is
\* not part of the persisted record.
C25_SaveLoadRoundTrip ==
  \A m \in 1..MaxMessages :
    handlers[m].pc \in {"save", "answered"}
      => LET state == handlers[m].resultState
             back == Deserialized(build, Serialized(build, state))
         IN /\ back.chat_history = state.chat_history
            /\ \A k \in FlagsAndFormKeys : back[k] = state[k]
            /\ "memory" \notin SerializedKeys(build)

\* C26: if the session store throws on load, the turn is still processed,
\* from a fresh session, and a response is delivered; if it throws on save,
\* the response of that turn is still delivered; in neither case does the
\* request end in an error event because of the store.
C26_StoreFailureTolerated ==
  \A m \in 1..MaxMessages :
    LET h == handlers[m] IN
      /\ (h.pc \in {"run", "save", "answered"} /\ ~h.loadOk)
            => /\ Fresh(Given(build, h))
               /\ Given(build, h).input = h.content
      /\ h.pc \in {"save", "answered"}
            => /\ h.resultState.chat_history # << >>
               /\ h.resultState.chat_history[Len(h.resultState.chat_history)].type = "ai"
      /\ h.pc = "answered" => h.sent = "message"
      /\ h.sent # "error"

\* a message answered although the stored session could not be read and the
\* result could not be written
C26_Witness ==
  \E m \in 1..MaxMessages :
    /\ handlers[m].pc = "answered"
    /\ handlers[m].found
    /\ ~handlers[m].loadOk
    /\ ~handlers[m].saveOk
    /\ handlers[m].sent = "message"
    /\ Len(handlers[m].resultState.chat_history) = 2

\* C27: turns of different sessions are independent under every
\* interleaving: a turn of one session reads and writes no mutable state
\* that a turn of another session reads or writes, other than each session's
\* own record in the store, so the turn of one session never changes what
\* the handler of another observes (a session is given from the cache only
\* what its own turns put there).
C27_SessionsIndependent ==
  \A a, b \in SessionIds :
    a # b => /\ touched[a] \cap touched[b] = {}
             /\ ~foreign[b]

\* the messages of a history with the given content
Count(history, content) ==
  Cardinality({i \in 1..Len(history) : history[i].content = content})

\* C28: a completed form is submitted exactly once: after the turn in which
\* it is submitted, later turns are not routed to submit_form again until
\* another form has been collected to completion; the history never has
\* more submission confirmations than forms collected to completion.
C28_SubmittedOnce ==
  /\ Count(session.chat_history, "confirmation")
        <= Count(session.chat_history, "summary")
  /\ (pc = "idle" /\ turn.pre.current_node = "submit_form"
        /\ Count(turn.pre.chat_history, "confirmation")
              = Count(turn.pre.chat_history, "summary"))
        => turn.handler # "submit_form"

\* C29: a form whose collection is complete is submitted only after the user
\* confirms: the turn following the question 'Do you want to submit this
\* form?' submits the form only if the user's reply is affirmative; a
\* negative or unrelated reply does not submit it.
C29_SubmitOnlyIfConfirmed ==
  (pc = "idle" /\ turn.handler = "submit_form"
     /\ turn.outcome \in {"ok", "pdf_failed", "no_template"})
    => isFormSubmissionConfirmation(turn.input)

\* C30: after every turn, current_node names the handler that processed that
\* turn and last_node names the handler that processed the previous turn of
\* the session (which current_node named before the turn).
C30_NodesNameHandlers ==
  (pc = "idle" /\ ThroughGraph)
    => /\ session.current_node = turn.handler
       /\ session.last_node = turn.pre.current_node

\* the fields of a session a collector turn may write
CollectorKeys ==
  {"form_fields", "form_status", "current_field", "chat_history"} \cup BoolKeys

\* C31: a collector turn on a session whose current_field names no element
\* of form_fields, or whose form_fields is absent, changes no field value, no
\* flag, neither form_status nor current_field, and adds nothing to the
\* history.
C31_NoFieldNoChange ==
  (turn.handler = "form_filling_agent" /\ turn.outcome = "no_field")
    => \A k \in CollectorKeys : session[k] = turn.pre[k]

\* the collector ran on a session without fields, and on one with fields
\* none of which is the current field
C31_Witness ==
  /\ turn.handler = "form_filling_agent" /\ turn.outcome = "no_field"
  /\ turn.pre.form_fields # << >>
  /\ turn.pre.current_field = "no_such_field"
  /\ turn.input = "a"
  /\ session.chat_history = turn.pre.chat_history

\* every required field of the sequence has a non-empty value
RequiredAnswered(form_fields) ==
  \A i \in 1..Len(form_fields) :
    form_fields[i].required => ~Unset(form_fields[i].value)

\* C32: only required fields gate completion: a collector turn that records
\* an answer marks the form completed as soon as every required field has a
\* non-empty value, and never makes an optional field the current field.
C32_OnlyRequiredGate ==
  (turn.handler = "form_filling_agent" /\ turn.outcome = "ok")
    => /\ RequiredAnswered(session.form_fields) => session.form_status = "completed"
       /\ \A i \in 1..Len(session.form_fields) :
            session.form_fields[i].name = session.current_field
              => session.form_fields[i].required

\* C33: every message received on a connection that stays open is answered
\* with exactly one final event ('message' or 'error') on that connection and
\* none on another, also when a second connection of the same session id has
\* been registered or has closed.
C33_OneFinalEventPerMessage ==
  \A m \in Deliveries :
    (deliveries[m].pc = "done" /\ sockets[deliveries[m].on] = "open")
      => \A c \in Conns :
           deliveries[m].finals[c] = IF c = deliveries[m].on THEN 1 ELSE 0

\* the number of fields of a session still to be answered
Unanswered(sess) == Len(remainingFields(sess.form_fields))

\* C34: once collection has started on a session whose current_field names an
\* unset field, and the user keeps answering, the session eventually has
\* form_status = completed; every collector turn that records a non-empty
\* answer without an adapter failure leaves exactly one unanswered field less.
C34_AnswersReachCompletion ==
  /\ [](  (/\ turn.handler = "form_filling_agent" /\ turn.outcome = "ok"
           /\ turn.input # "" /\ Consistent(turn.pre))
          => Unanswered(session) = Unanswered(turn.pre) - 1)
  /\ ((session.is_form_filling_started /\ Consistent(session))
        ~> session.form_status = "completed")

\* a collection of INS001 that met an empty answer and an adapter failure on
\* its way has been completed by an answer
C34_Witness ==
  /\ turn.handler = "form_filling_agent" /\ turn.outcome = "ok"
  /\ Consistent(turn.pre) /\ turn.pre.is_form_filling_started
  /\ session.form_status = "completed" /\ Unanswered(session) = 0
  /\ origin = "INS001" /\ failures = 1
  /\ \E i \in 1..Len(inputs) : inputs[i] = ""

\* the response of the assistant turn just completed: the content of the
\* last message of the history
LastContent(history) == history[Len(history)].content

\* C35: the assistant's tool loop never runs more than MAX_ITERATIONS
\* iterations, whatever the model's outputs and the tools' results are (tool
\* call without RESPONSE, unknown tool, tool error, tool exception,
\* unparsable output); every iteration that does not return counts, and the
\* turn that leaves the loop answers with a non-empty response, the default
\* message when the iterations ran out.
C35_LoopBoundedAndAnswers ==
  /\ [](pc = "loop" => agent.iterations <= MAX_ITERATIONS)
  /\ [][ /\ (pc = "loop" /\ pc' = "loop")
             => agent'.iterations = agent.iterations + 1
         /\ (pc = "loop" /\ pc' = "idle")
             => /\ LastContent(session'.chat_history) # ""
                /\ agent.iterations >= MAX_ITERATIONS
                     => LastContent(session'.chat_history) = "default_reply" ]_vars

\* the loop has run all its iterations without a final response, a tool
\* call having failed on the way
C35_Witness ==
  /\ pc = "loop"
  /\ agent.iterations = MAX_ITERATIONS
  /\ ~agent.done /\ agent.response = ""
  /\ agent.toolError

\* C36: a collector turn whose input is the empty string does not advance
\* the collection: the field that was current before the turn is still
\* unset, current_field is what it was, and the form is not completed.
C36_EmptyAnswerKeepsField ==
  (turn.handler = "form_filling_agent" /\ turn.input = "")
    => /\ session.current_field = turn.pre.current_field
       /\ session.form_status # "completed"
       /\ session.is_form_filling_started
       /\ \A i \in 1..Len(session.form_fields) :
            session.form_fields[i].name = turn.pre.current_field
              => Unset(session.form_fields[i].value)

\* the collector was given an empty answer for a field in the middle of the
\* form, recorded it and asked for the same field again
C36_Witness ==
  /\ turn.handler = "form_filling_agent" /\ turn.input = "" /\ turn.outcome = "ok"
  /\ turn.pre.current_field = "dob"
  /\ \E i \in 1..Len(session.form_fields) :
       /\ session.form_fields[i].name = "dob"
       /\ session.form_fields[i].value = ""
  /\ LastContent(session.chat_history) = "question"
  /\ session.chat_history[Len(session.chat_history)].about = "dob"

\* the assistant messages without tool calls that call k pushed
Closing(k) ==
  Len(SelectSeq(messages, LAMBDA msg : /\ msg.call = k /\ msg.role = "assistant"
                                       /\ msg.tool_calls = 0))

\* C37: a call of chat whose first reply requested tool calls returns the
\* model's final reply, the one produced after the tool results were added,
\* and pushes exactly one closing assistant message.
C37_ReturnsFinalReply ==
  \A k \in ChatCalls :
    (chats[k].pc = "returned" /\ chats[k].tool_calls > 0)
      => /\ chats[k].returned = chats[k].finalResponse
         /\ Closing(k) = 1
====
